---- MODULE Spec2Model ----
(***************************************************************************)
(* The virtual try-on pipeline of backend/app/api/virtual_tryon.py: the    *)
(* job record (VirtualTryOnResult), the in-memory TRYON_RESULT_CACHE, the  *)
(* background task process_virtual_tryon_with_ai and the endpoints that    *)
(* create, poll and delete a job.  One job is followed from its creation   *)
(* to the end of its run.  The background task is an asyncio coroutine:    *)
(* every action below is the code between two awaits, which the event      *)
(* loop runs without interleaving any other coroutine; the endpoints are   *)
(* `async def` as well and contain no await, so each is one action.        *)
(* Python's 0-based list indices are 1-based here.                         *)
(***************************************************************************)
EXTENDS Integers, Sequences, FiniteSets, TLC

\* ------------------------------------------------------------------ bounds

\* Longest item_details list a job is created with (the schema allows
\* MaxItemDetails).
MaxItems == 3
\* The uploads after which no further run of a job is started.
MaxUploads == 2

\* --------------------------------------------------------- program constants

\* Field(min_length=1, max_length=5) on VirtualTryOnRequest.item_details.
MinItemDetails == 1
MaxItemDetails == 5
\* fetch_with_retries(url, attempts=3, ...).
FetchAttempts == 3
\* asyncio.sleep(1.5 * (i + 1)), in tenths of a second.
BackoffTenths == 15
\* for attempt in range(3) in generate_virtual_tryon.
GeminiAttempts == 3
\* str(e)[:500].
ErrorLimit == 500
\* The first primary key the database hands out.
FirstId == 1
\* HTTP status codes of the endpoints.
HTTP_200 == 200
HTTP_202 == 202
HTTP_204 == 204
HTTP_404 == 404
HTTP_422 == 422

\* ------------------------------------------------------------------ values

\* Python's None, for optional strings, bytes and URLs.
None == "None"
\* Truthiness of an optional string, as in `if not user_image_base64`.
Truthy(s) == s # None /\ s # ""

\* The authenticated users (get_current_user_id): the one who creates the
\* job, and another one.
Owner == "alice"
Users == {Owner, "bob"}

\* VirtualTryOnStatus.
PROCESSING == "processing"
COMPLETED == "completed"
FAILED == "failed"

\* URLs and inline payloads a request can carry.
UserUrl == "url:user"
ItemUrl == "url:item"
UserB64 == "b64:inline-user"
ItemB64 == "b64:inline-item"
\* Wardrobe catalog: the numeric item id sent for position i, and the image
\* URL (image_clean or image_original) of the record with that id.
WardrobeIds == <<"101", "102", "103", "104", "105", "106">>
WardrobeUrls == <<"url:w101", "url:w102", "url:w103", "url:w104", "url:w105", "url:w106">>
BadId == "abc"
AllUrls == {UserUrl, ItemUrl} \cup {WardrobeUrls[i] : i \in DOMAIN WardrobeUrls}

\* The body a GET of `url` returns on a 2xx answer: the image stored there.
BytesOf(url) == [kind |-> "bytes", of |-> url]
NoBytes == [kind |-> "bytes", of |-> None]
\* base64.b64encode(b).decode('utf-8'): the empty body encodes to "".
B64Encode(b) == IF b.of = "" THEN "" ELSE
                CASE b.of = UserUrl -> "b64:user"
                  [] b.of = ItemUrl -> "b64:item"
                  [] b.of = WardrobeUrls[1] -> "b64:w101"
                  [] b.of = WardrobeUrls[2] -> "b64:w102"
                  [] b.of = WardrobeUrls[3] -> "b64:w103"
                  [] b.of = WardrobeUrls[4] -> "b64:w104"
                  [] b.of = WardrobeUrls[5] -> "b64:w105"
                  [] b.of = WardrobeUrls[6] -> "b64:w106"
\* The image Gemini returns for a job.
ResultB64 == "b64:result"
\* f"https://{bucket}.s3.{region}.amazonaws.com/{object_name}".
ResultUrl == "url:s3-result"

\* error_message texts: the text and its length.
Msg(text, len) == [text |-> text, len |-> len]
NoMsg == Msg(None, 0)
MsgUserImageRequired == Msg("User image is required", 22)
MsgNoValidItems == Msg("No valid items with images found", 32)
MsgGeminiFailed == Msg("Failed to generate virtual try-on image with Gemini", 51)
MsgUploadFailed == Msg("Failed to upload virtual try-on result to S3", 44)
\* str(e) of an exception the run catches: any text, the empty one included
\* (httpx raises timeouts whose str() is empty); only its length is kept.
ExcLens == {0, 40, ErrorLimit + 100}
Min(a, b) == IF a < b THEN a ELSE b
\* str(e)[:500]
Truncate(len) == Min(len, ErrorLimit)
MsgOfException(len) == Msg("str(e)", Truncate(len))

\* ------------------------------------------------------------------- state

VARIABLES
    db,                   \* virtual_tryon_results: id -> row
    cache,                \* TRYON_RESULT_CACHE: id -> base64
    uploads,              \* calls of upload_file_from_base64 made so far
    pc,                   \* where the background task is
    args,                 \* the arguments the background task was scheduled with
    items,                \* the task's `items` list (mutated while it runs)
    user_image_base64,    \* the task's local of that name
    fetched_user_bytes,   \* the task's local of that name
    user_fetch,           \* the awaited fetch_with_retries call of line 115
    item_urls_to_fetch,   \* the task's local of that name
    item_url_indices,     \* the task's local of that name
    user_fetch_idx,       \* the task's local of that name (0 for Python's -1)
    fetch_tasks,          \* the fetch_with_retries calls asyncio.gather is awaiting
    fetched_responses,    \* the task's local of that name: what gather returned
    looked_up,            \* positions of the items get_wardrobe_item was called for
    gemini,               \* the calls of generate_virtual_tryon and its retry loop
    result_image_base64,  \* the task's local of that name
    run_end,              \* how the task ended
    create_response,      \* what POST /generate answered
    last_response,        \* what the latest GET /{tryon_id} answered, and to whom
    seen                  \* the status the owner's latest successful poll showed

storeVars == <<db, cache, uploads>>
taskVars == <<pc, args, items, user_image_base64, fetched_user_bytes, user_fetch,
              item_urls_to_fetch, item_url_indices, user_fetch_idx, fetch_tasks,
              fetched_responses, looked_up, gemini, result_image_base64, run_end>>
apiVars == <<create_response, last_response, seen>>
vars == <<storeVars, taskVars, apiVars>>

\* A row of virtual_tryon_results (the columns the pipeline reads or writes).
Row(user_id) == [user_id |-> user_id, status |-> PROCESSING,
                 result_image_url |-> None, error_message |-> NoMsg]
Exists(id) == id \in DOMAIN db

\* One call of fetch_with_retries: the loop counter, whether it is still
\* looping, has returned r.content or has raised last_exc, and the last sleep.
NewFetch(url) == [url |-> url, attempts |-> 0, state |-> "pending",
                  content |-> NoBytes, slept |-> 0]
NoFetch == [url |-> None, attempts |-> 0, state |-> "none",
            content |-> NoBytes, slept |-> 0]

\* generate_virtual_tryon: how often the task has called it and with what, and
\* the locals `attempt` and `last_exc` of its retry loop while it runs, and,
\* once it has returned None, the failure its except clauses and checks logged.
NoGemini == [calls |-> 0, user |-> None, items |-> <<>>, attempt |-> 0, last_exc |-> None,
             failure |-> None]
NoArgs == [tryon_id |-> 0, user_id |-> None, user_image_url |-> None,
           user_image_base64 |-> None, item_image_urls |-> <<>>]
NoResponse == [code |-> 0, caller |-> None, id |-> 0, status |-> None, result_image_url |-> None,
               result_image_base64 |-> None, error_message |-> NoMsg]

Init ==
    /\ db = <<>>
    /\ cache = <<>>
    /\ uploads = 0
    /\ pc = "idle"
    /\ args = NoArgs
    /\ items = <<>>
    /\ user_image_base64 = None
    /\ fetched_user_bytes = NoBytes
    /\ user_fetch = NoFetch
    /\ item_urls_to_fetch = <<>>
    /\ item_url_indices = <<>>
    /\ user_fetch_idx = 0
    /\ fetch_tasks = <<>>
    /\ fetched_responses = <<>>
    /\ looked_up = {}
    /\ gemini = NoGemini
    /\ result_image_base64 = None
    /\ run_end = "none"
    /\ create_response = NoResponse
    /\ last_response = NoResponse
    /\ seen = None

\* ------------------------------------------------------------ POST /generate

\* ItemDetails: the kinds of item a request names at position i.
ItemDetailsAt(i) == { [type |-> "wardrobe", item_id |-> WardrobeIds[i]],
                      [type |-> "wardrobe", item_id |-> BadId],
                      [type |-> "boutique", item_id |-> None] }
ItemDetailLists(n) == { l \in [1..n -> UNION {ItemDetailsAt(i) : i \in 1..n}] :
                          \A i \in 1..n : l[i] \in ItemDetailsAt(i) }
\* The request bodies: lists the schema accepts, up to MaxItems long, the empty
\* list and a list of MaxItemDetails + 1 items.
Requests == [ user_image_url : {None, UserUrl},
              user_image_base64 : {None, UserB64},
              item_image_url : {None, ItemUrl},
              item_image_base64 : {None, ItemB64},
              item_details : UNION {ItemDetailLists(n) : n \in 0..Min(MaxItems, MaxItemDetails)}
                             \cup {[i \in 1..(MaxItemDetails + 1) |->
                                      [type |-> "boutique", item_id |-> None]]} ]

\* Faulty variant of ValidRequest: no max_length.
ValidRequestNoMaximum(request) == Len(request.item_details) >= MinItemDetails

\* Field(min_length=1, max_length=5).
ValidRequest(request) ==
    /\ Len(request.item_details) >= MinItemDetails
    /\ Len(request.item_details) <= MaxItemDetails

\* processing_items of generate_virtual_tryon_endpoint.
ProcessingItems(request) ==
    [idx \in 1..Len(request.item_details) |->
        [item_id |-> IF Truthy(request.item_details[idx].item_id)
                     THEN request.item_details[idx].item_id ELSE "0",
         item_type |-> request.item_details[idx].type,
         image_base64 |-> IF idx = 1 /\ Truthy(request.item_image_base64)
                          THEN request.item_image_base64 ELSE None]]

\* item_image_urls_list; the endpoint passes None for the empty list and the
\* task tests only its truthiness, so <<>> stands for both.
ItemImageUrlsList(request) ==
    IF Len(request.item_details) = 1
       /\ (Truthy(request.item_image_url) \/ Truthy(request.item_image_base64))
       /\ Truthy(request.item_image_url)
    THEN <<request.item_image_url>>
    ELSE <<>>

generate_virtual_tryon_endpoint(user_id, request) ==
    /\ pc = "idle"
    /\ create_response = NoResponse
    /\ IF ~ValidRequest(request)
       THEN /\ create_response' = [NoResponse EXCEPT !.code = HTTP_422, !.caller = user_id]
            /\ UNCHANGED <<storeVars, taskVars, last_response, seen>>
       ELSE /\ db' = (FirstId :> Row(user_id))
            /\ args' = [tryon_id |-> FirstId, user_id |-> user_id,
                        user_image_url |-> request.user_image_url,
                        user_image_base64 |-> request.user_image_base64,
                        item_image_urls |-> ItemImageUrlsList(request)]
            /\ items' = ProcessingItems(request)
            /\ user_image_base64' = request.user_image_base64
            /\ pc' = "scheduled"
            /\ create_response' = [NoResponse EXCEPT !.code = HTTP_202, !.caller = user_id,
                                                     !.id = FirstId,
                                                     !.status = PROCESSING]
            /\ UNCHANGED <<cache, uploads, fetched_user_bytes, user_fetch,
                           item_urls_to_fetch, item_url_indices, user_fetch_idx,
                           fetch_tasks, fetched_responses, looked_up, gemini,
                           result_image_base64, run_end, last_response, seen>>

\* ------------------------------------------------------- GET /{tryon_id}

\* Faulty variant of GetTryonResult: the query does not filter on user_id.
GetTryonResultAnyUser(store, c, tryon_id, user_id) ==
    IF tryon_id \in DOMAIN store
    THEN LET r == store[tryon_id] IN
         [code |-> HTTP_200, caller |-> user_id, id |-> tryon_id, status |-> r.status,
          result_image_url |-> r.result_image_url,
          result_image_base64 |->
              IF r.status = COMPLETED /\ ~Truthy(r.result_image_url)
                 /\ tryon_id \in DOMAIN c /\ Truthy(c[tryon_id])
              THEN c[tryon_id] ELSE None,
          error_message |-> r.error_message]
    ELSE [NoResponse EXCEPT !.code = HTTP_404, !.caller = user_id]

\* Faulty variant of GetTryonResult: the cached image is attached whatever the
\* status and the URL of the row are.
GetTryonResultOverlaysAlways(store, c, tryon_id, user_id) ==
    IF tryon_id \in DOMAIN store /\ store[tryon_id].user_id = user_id
    THEN LET r == store[tryon_id] IN
         [code |-> HTTP_200, caller |-> user_id, id |-> tryon_id, status |-> r.status,
          result_image_url |-> r.result_image_url,
          result_image_base64 |->
              IF tryon_id \in DOMAIN c /\ Truthy(c[tryon_id])
              THEN c[tryon_id] ELSE None,
          error_message |-> r.error_message]
    ELSE [NoResponse EXCEPT !.code = HTTP_404, !.caller = user_id]

\* get_tryon_result as a function of the store, the cache and the caller.
GetTryonResult(store, c, tryon_id, user_id) ==
    IF tryon_id \in DOMAIN store /\ store[tryon_id].user_id = user_id
    THEN LET r == store[tryon_id] IN
         [code |-> HTTP_200, caller |-> user_id, id |-> tryon_id, status |-> r.status,
          result_image_url |-> r.result_image_url,
          result_image_base64 |->
              IF r.status = COMPLETED /\ ~Truthy(r.result_image_url)
                 /\ tryon_id \in DOMAIN c /\ Truthy(c[tryon_id])
              THEN c[tryon_id] ELSE None,
          error_message |-> r.error_message]
    ELSE [NoResponse EXCEPT !.code = HTTP_404, !.caller = user_id]

get_tryon_result(tryon_id, user_id) ==
    /\ last_response' = GetTryonResult(db, cache, tryon_id, user_id)
    /\ seen' = IF last_response'.code = HTTP_200 THEN last_response'.status ELSE seen
    /\ UNCHANGED <<storeVars, taskVars, create_response>>

\* ---------------------------------------------------- DELETE /{tryon_id}

DeleteRow(store, tryon_id) == [i \in DOMAIN store \ {tryon_id} |-> store[i]]

\* Faulty variant of delete_tryon: the job's cache entry is dropped with the row.
delete_tryon_and_cache(tryon_id, user_id) ==
    /\ IF tryon_id \in DOMAIN db /\ db[tryon_id].user_id = user_id
       THEN /\ db' = DeleteRow(db, tryon_id)
            /\ cache' = [i \in DOMAIN cache \ {tryon_id} |-> cache[i]]
            /\ last_response' = [NoResponse EXCEPT !.code = HTTP_204, !.caller = user_id]
       ELSE /\ db' = db
            /\ cache' = cache
            /\ last_response' = [NoResponse EXCEPT !.code = HTTP_404, !.caller = user_id]
    /\ UNCHANGED <<uploads, taskVars, create_response, seen>>

delete_tryon(tryon_id, user_id) ==
    /\ IF tryon_id \in DOMAIN db /\ db[tryon_id].user_id = user_id
       THEN /\ db' = DeleteRow(db, tryon_id)
            /\ last_response' = [NoResponse EXCEPT !.code = HTTP_204, !.caller = user_id]
       ELSE /\ db' = db
            /\ last_response' = [NoResponse EXCEPT !.code = HTTP_404, !.caller = user_id]
    /\ UNCHANGED <<cache, uploads, taskVars, create_response, seen>>

\* ------------------------------------------- process_virtual_tryon_with_ai

tryon_id == args.tryon_id

\* What one `await c.get(url)` of fetch_with_retries can bring: an exception
\* (transport error, or raise_for_status on a 4xx/5xx), or a 2xx answer with
\* the image stored at the URL.
FetchResponses(url) == { [ok |-> FALSE, content |-> NoBytes],
                         [ok |-> TRUE, content |-> BytesOf(url)] }

\* Faulty variant of fetch_with_retries: `range(attempts + 1)`, one attempt too many.
fetch_with_retries_off_by_one(f, r) ==
    IF r.ok
    THEN [f EXCEPT !.attempts = @ + 1, !.state = "returned", !.content = r.content]
    ELSE [f EXCEPT !.attempts = @ + 1,
                   !.slept = BackoffTenths * (f.attempts + 1),
                   !.state = IF f.attempts + 1 < FetchAttempts + 1 THEN "pending" ELSE "raised"]

\* One iteration of the loop of fetch_with_retries, with the sleep after a
\* failed attempt; after the last one the call raises last_exc.
fetch_with_retries(f, r) ==
    IF r.ok
    THEN [f EXCEPT !.attempts = @ + 1, !.state = "returned", !.content = r.content]
    ELSE [f EXCEPT !.attempts = @ + 1,
                   !.slept = BackoffTenths * (f.attempts + 1),
                   !.state = IF f.attempts + 1 < FetchAttempts THEN "pending" ELSE "raised"]

\* --- lines 117-163: which items need a fetch, and from where

\* What get_wardrobe_item(db, int(item_id), user_id) can bring: a record with an
\* image URL (image_clean or image_original), a record with neither, no
\* record, or a database error.
WardrobeOutcomes == {"found", "no_image", "missing", "error"}

\* item_type == "wardrobe" and item_id and item_id != "0"
WardrobeBranch(item) ==
    item.item_type = "wardrobe" /\ Truthy(item.item_id) /\ item.item_id # "0"
\* int(item_id) does not raise ValueError.
IntParses(item_id) == \E i \in DOMAIN WardrobeIds : WardrobeIds[i] = item_id
WardrobeUrlOf(item_id) ==
    WardrobeUrls[CHOOSE i \in DOMAIN WardrobeIds : WardrobeIds[i] = item_id]

\* Faulty variant of ImageUrlAt: an item that has its image is not skipped.
ImageUrlAtNoSkip(its, urls, outs, idx) ==
    IF WardrobeBranch(its[idx])
    THEN IF IntParses(its[idx].item_id) /\ idx \in DOMAIN outs /\ outs[idx] = "found"
         THEN WardrobeUrlOf(its[idx].item_id) ELSE None
    ELSE IF urls # <<>> /\ idx <= Len(urls) /\ Truthy(urls[idx])
         THEN urls[idx] ELSE None

\* The URL the loop appends to item_urls_to_fetch for position idx, or None.
ImageUrlAt(its, urls, outs, idx) ==
    IF Truthy(its[idx].image_base64) THEN None
    ELSE IF WardrobeBranch(its[idx])
         THEN IF IntParses(its[idx].item_id) /\ idx \in DOMAIN outs /\ outs[idx] = "found"
              THEN WardrobeUrlOf(its[idx].item_id) ELSE None
         ELSE IF urls # <<>> /\ idx <= Len(urls) /\ Truthy(urls[idx])
              THEN urls[idx] ELSE None

Positions(its) == [i \in 1..Len(its) |-> i]
ItemUrlIndices(its, urls, outs) ==
    SelectSeq(Positions(its), LAMBDA idx : ImageUrlAt(its, urls, outs, idx) # None)
ItemUrlsToFetch(its, urls, outs) ==
    LET ix == ItemUrlIndices(its, urls, outs)
    IN  [k \in 1..Len(ix) |-> ImageUrlAt(its, urls, outs, ix[k])]
\* The positions get_wardrobe_item is called for.
\* Faulty variant of LookedUp: the loop ends at the first item_id that int()
\* cannot parse.
LookedUpUntilInvalid(its) ==
    { idx \in 1..Len(its) : /\ ~Truthy(its[idx].image_base64)
                            /\ WardrobeBranch(its[idx])
                            /\ IntParses(its[idx].item_id)
                            /\ \A j \in 1..idx : WardrobeBranch(its[j]) =>
                                                      IntParses(its[j].item_id) }
LookedUp(its) ==
    { idx \in 1..Len(its) : /\ ~Truthy(its[idx].image_base64)
                            /\ WardrobeBranch(its[idx])
                            /\ IntParses(its[idx].item_id) }

\* --- lines 165-176: the tasks handed to asyncio.gather

UserFetchIdx(fub) ==
    IF fub = NoBytes /\ Truthy(args.user_image_url) THEN 1 ELSE 0
FetchTasks(fub, urls_to_fetch) ==
    (IF UserFetchIdx(fub) > 0 THEN <<NewFetch(args.user_image_url)>> ELSE <<>>)
    \o [k \in 1..Len(urls_to_fetch) |-> NewFetch(urls_to_fetch[k])]

\* --- lines 178-222: map the responses back

\* What asyncio.gather(..., return_exceptions=True) returns for a task: its
\* r.content, or the exception it raised.
ResponseOf(f) == IF f.state = "returned" THEN [ok |-> TRUE, content |-> f.content]
                 ELSE [ok |-> FALSE, content |-> NoBytes]
\* fetched_user_bytes after "Handle user image".
MappedUserBytes(fub, responses, ufi) ==
    IF ufi > 0 /\ 1 <= Len(responses) /\ responses[1].ok
    THEN responses[1].content ELSE fub
\* Faulty variant of FirstItemResponse: response_idx is not advanced past the
\* response of the user image.
FirstItemResponseZero(responses, ufi) == 0
\* response_idx when the item loop starts.
FirstItemResponse(responses, ufi) == IF ufi > 0 /\ 1 <= Len(responses) THEN 1 ELSE 0
\* items after "Map item image responses".
MappedItems(its, responses, ufi, idxs) ==
    [idx \in 1..Len(its) |->
        IF \E k \in 1..Len(idxs) :
              /\ idxs[k] = idx
              /\ FirstItemResponse(responses, ufi) + k <= Len(responses)
              /\ responses[FirstItemResponse(responses, ufi) + k].ok
        THEN LET k == CHOOSE k \in 1..Len(idxs) : idxs[k] = idx
             IN  [its[idx] EXCEPT !.image_base64 =
                     B64Encode(responses[FirstItemResponse(responses, ufi) + k].content)]
        ELSE its[idx]]
\* Faulty variant of ConvertedUser: the user image is taken from the fetched
\* bytes only.
ConvertedUserFetchedOnly(ub64, fub) == IF fub # NoBytes THEN B64Encode(fub) ELSE None
\* user_image_base64 after "Convert user image to base64 if needed".
ConvertedUser(ub64, fub) ==
    IF ~Truthy(ub64) /\ fub # NoBytes THEN B64Encode(fub) ELSE ub64
\* Faulty variant of ProcessedItems: the items without an image are not skipped.
ProcessedItemsKeepsAll(its) == [k \in 1..Len(its) |-> its[k].image_base64]

\* processed_items, as the payloads of gemini_items.
ProcessedItems(its) ==
    LET kept == SelectSeq(Positions(its), LAMBDA idx : Truthy(its[idx].image_base64))
    IN  [k \in 1..Len(kept) |-> its[kept[k]].image_base64]

\* --- writes of the task to its row

\* tryon_record.<column> = ...; db.commit(), with `row` the record as changed.
\* The UPDATE of a row that delete_tryon has removed matches no row and the
\* commit raises.
CommitRaises == ~Exists(tryon_id)
Commit(store, row) ==
    db' = IF CommitRaises THEN store ELSE [store EXCEPT ![tryon_id] = row]

MarkProcessing(row) == [row EXCEPT !.status = PROCESSING]
\* Faulty variant of MarkFailed: the error_message is not written.
MarkFailedNoMessage(row, msg) == [row EXCEPT !.status = FAILED]
\* tryon_record.status = FAILED; tryon_record.error_message = msg
MarkFailed(row, msg) == [row EXCEPT !.status = FAILED, !.error_message = msg]
MarkCompleted(row) == [row EXCEPT !.status = COMPLETED]
\* Faulty variant of SetResultUrl: the URL is not written to the row.
SetResultUrlForgets(row, url) == row
\* tryon_record.result_image_url = result_url
SetResultUrl(row, url) == [row EXCEPT !.result_image_url = url]

\* Faulty variants of ExceptHandler: a handler that only logs, and a handler that puts
\* the job back to PROCESSING.
ExceptHandlerLogsOnly(len) == db' = db
ExceptHandlerRequeues(len) ==
    db' = IF Exists(tryon_id)
          THEN [db EXCEPT ![tryon_id] = MarkProcessing(@)]
          ELSE db

\* Faulty variant of ExceptHandler: a row that is gone is put back as FAILED.
ExceptHandlerRecreates(len) ==
    db' = IF Exists(tryon_id)
          THEN [db EXCEPT ![tryon_id] = MarkFailed(@, MsgOfException(len))]
          ELSE (tryon_id :> MarkFailed(Row(args.user_id), MsgOfException(len))) @@ db

\* except Exception as e: query the row again and, if it is there, mark it
\* FAILED with str(e)[:500].
ExceptHandler(len) ==
    db' = IF Exists(tryon_id)
          THEN [db EXCEPT ![tryon_id] = MarkFailed(@, MsgOfException(len))]
          ELSE db

\* Faulty variant of FailAndReturn: the write is never committed.
FailAndReturnNoCommit(store, msg, how) ==
    /\ db' = store
    /\ pc' = "done"
    /\ run_end' = how

\* A FAILED write of the try body followed by `return`: lines 226-229,
\* 259-262, 364-366.  When the commit raises, the handler finds no row.
FailAndReturn(store, msg, how) ==
    /\ Commit(store, MarkFailed(store[tryon_id], msg))
    /\ pc' = "done"
    /\ run_end' = IF CommitRaises THEN "exception_commit" ELSE how

\* --- lines 178-307: from the gathered responses to the call of Gemini.
\* No await lies between the end of asyncio.gather and the first request
\* generate_virtual_tryon sends, so this is one step.  fub, ub64 and its are
\* the task's fetched_user_bytes, user_image_base64 and items when gather
\* returns, responses what it returns, store the rows as the step finds them.
AfterGather(store, fub, ub64, its, responses, ufi, idxs) ==
    LET fub2 == MappedUserBytes(fub, responses, ufi)
        its2 == MappedItems(its, responses, ufi, idxs)
        ub2 == ConvertedUser(ub64, fub2)
        processed_items == ProcessedItems(its2)
    IN  /\ fetched_responses' = responses
        /\ fetched_user_bytes' = fub2
        /\ items' = its2
        /\ user_image_base64' = ub2
        /\ IF ~Truthy(ub2)
           THEN /\ FailAndReturn(store, MsgUserImageRequired, "user_image_required")
                /\ UNCHANGED gemini
           ELSE IF processed_items = <<>>
           THEN /\ FailAndReturn(store, MsgNoValidItems, "no_valid_items")
                /\ UNCHANGED gemini
           ELSE /\ gemini' = [calls |-> gemini.calls + 1, user |-> ub2,
                               items |-> processed_items, attempt |-> 0,
                               last_exc |-> None, failure |-> None]
                /\ pc' = "generate"
                /\ db' = store
                /\ UNCHANGED run_end

\* --- lines 117-176: look the wardrobe items up, build the fetch tasks and
\* await asyncio.gather; with no task to await the code runs on.
Acquire(store, fub) ==
    \E outs \in [LookedUp(items) -> WardrobeOutcomes] :
        LET idxs == ItemUrlIndices(items, args.item_image_urls, outs)
            urls == ItemUrlsToFetch(items, args.item_image_urls, outs)
            tasks == FetchTasks(fub, urls)
        IN  /\ item_url_indices' = idxs
            /\ item_urls_to_fetch' = urls
            /\ user_fetch_idx' = UserFetchIdx(fub)
            /\ fetch_tasks' = tasks
            /\ looked_up' = LookedUp(items)
            /\ IF tasks = <<>>
               THEN AfterGather(store, fub, user_image_base64, items, <<>>,
                                UserFetchIdx(fub), idxs)
               ELSE /\ pc' = "gather"
                    /\ fetched_user_bytes' = fub
                    /\ db' = store
                    /\ UNCHANGED <<items, user_image_base64, fetched_responses,
                                   gemini, run_end>>

\* Faulty variant of RecordMissing: the task puts a row of its own in place of
\* the one it did not find.
RecordMissingRecreates ==
    /\ pc' = "done"
    /\ run_end' = "record_missing"
    /\ db' = (tryon_id :> MarkFailed(Row(args.user_id), MsgOfException(0))) @@ db
    /\ UNCHANGED <<items, user_image_base64, fetched_user_bytes, user_fetch,
                   item_urls_to_fetch, item_url_indices, user_fetch_idx,
                   fetch_tasks, fetched_responses, looked_up, gemini>>

\* Lines 81-83: `if not tryon_record: ... return`.
RecordMissing ==
    /\ pc' = "done"
    /\ run_end' = "record_missing"
    /\ UNCHANGED <<db, items, user_image_base64, fetched_user_bytes, user_fetch,
                   item_urls_to_fetch, item_url_indices, user_fetch_idx,
                   fetch_tasks, fetched_responses, looked_up, gemini>>

\* Lines 69-115: the task starts, loads its row and marks it PROCESSING; then
\* it awaits the fetch of the user image, or goes on to the items.
TaskStart ==
    /\ pc = "scheduled"
    /\ IF ~Exists(tryon_id)
       THEN RecordMissing
       ELSE IF ~Truthy(user_image_base64) /\ Truthy(args.user_image_url)
       THEN /\ Commit(db, MarkProcessing(db[tryon_id]))
            /\ user_fetch' = NewFetch(args.user_image_url)
            /\ pc' = "user_fetch"
            /\ UNCHANGED <<items, user_image_base64, fetched_user_bytes,
                           item_urls_to_fetch, item_url_indices, user_fetch_idx,
                           fetch_tasks, fetched_responses, looked_up, gemini, run_end>>
       ELSE /\ Acquire([db EXCEPT ![tryon_id] = MarkProcessing(@)], fetched_user_bytes)
            /\ UNCHANGED user_fetch
    /\ UNCHANGED <<cache, uploads, args, result_image_base64, apiVars>>

\* Line 115: one attempt of the awaited fetch of the user image.  When the
\* last attempt fails the exception leaves the try body.
UserFetchAttempt ==
    /\ pc = "user_fetch"
    /\ \E r \in FetchResponses(user_fetch.url) :
         LET f == fetch_with_retries(user_fetch, r)
         IN  /\ user_fetch' = f
             /\ CASE f.state = "pending" ->
                       UNCHANGED <<db, pc, items, user_image_base64, fetched_user_bytes,
                                   item_urls_to_fetch, item_url_indices, user_fetch_idx,
                                   fetch_tasks, fetched_responses, looked_up, gemini,
                                   run_end>>
                  [] f.state = "raised" ->
                       /\ \E len \in ExcLens : ExceptHandler(len)
                       /\ pc' = "done"
                       /\ run_end' = "exception_user_fetch"
                       /\ UNCHANGED <<items, user_image_base64, fetched_user_bytes,
                                      item_urls_to_fetch, item_url_indices,
                                      user_fetch_idx, fetch_tasks, fetched_responses,
                                      looked_up, gemini>>
                  [] f.state = "returned" ->
                       Acquire(db, f.content)
    /\ UNCHANGED <<cache, uploads, args, result_image_base64, apiVars>>

\* Line 176: one attempt of one of the gathered fetches.
GatherFetchAttempt(k) ==
    /\ pc = "gather"
    /\ k \in 1..Len(fetch_tasks)
    /\ fetch_tasks[k].state = "pending"
    /\ \E r \in FetchResponses(fetch_tasks[k].url) :
         fetch_tasks' = [fetch_tasks EXCEPT ![k] = fetch_with_retries(@, r)]
    /\ UNCHANGED <<storeVars, pc, args, items, user_image_base64, fetched_user_bytes,
                   user_fetch, item_urls_to_fetch, item_url_indices, user_fetch_idx,
                   fetched_responses, looked_up, gemini, result_image_base64, run_end,
                   apiVars>>

\* Faulty variant of GatherDone: the wait ends with the first finished task.
GatherDoneFirst == \E k \in 1..Len(fetch_tasks) : fetch_tasks[k].state # "pending"

\* asyncio.gather(*fetch_tasks, return_exceptions=True) returns once every
\* task has returned or raised.
GatherDone == \A k \in 1..Len(fetch_tasks) : fetch_tasks[k].state # "pending"
GatherReturns ==
    /\ pc = "gather"
    /\ GatherDone
    /\ AfterGather(db, fetched_user_bytes, user_image_base64, items,
                   [k \in 1..Len(fetch_tasks) |-> ResponseOf(fetch_tasks[k])],
                   user_fetch_idx, item_url_indices)
    /\ fetch_tasks' = <<>>
    /\ UNCHANGED <<cache, uploads, args, user_fetch, item_urls_to_fetch, item_url_indices,
                   user_fetch_idx, looked_up, result_image_base64, apiVars>>

\* --- generate_virtual_tryon (gemini_service.py), awaited at line 302

\* What one `await client.post(...)` of the retry loop ends in: a 2xx answer
\* that carries an image, a 2xx answer without one (no candidates, or no
\* inlineData part), a transport error (ConnectError, ReadTimeout), an error
\* status (raise_for_status: HTTPStatusError), or a 2xx answer whose body
\* response.json() cannot parse.
GeminiOutcomes == {"image", "no_image", "transport_error", "service_error", "bad_json"}
\* except (httpx.ConnectError, httpx.ReadTimeout, httpx.HTTPError): every
\* httpx.HTTPError is caught by the loop, HTTPStatusError included.
Retried(out) == out \in {"transport_error", "service_error"}

\* What generate_virtual_tryon logs before it returns None (lines 465, 470,
\* 473, 479): the text, and for an exception the length of its str().
LoggedReason(out) ==
    CASE out = "no_image" -> Msg("No image data found in Gemini response", 38)
      [] out \in {"transport_error", "service_error"} ->
            Msg("HTTP error during virtual try-on generation: str(e)", 45)
      [] OTHER -> Msg("Error generating virtual try-on with Gemini: str(e)", 45)

\* Faulty variant of Deliver: the result is uploaded twice.
DeliverUploadsTwice ==
    /\ result_image_base64' = ResultB64
    /\ cache' = (tryon_id :> ResultB64) @@ cache
    /\ Commit(db, MarkCompleted(db[tryon_id]))
    /\ IF CommitRaises
       THEN /\ pc' = "done"
            /\ run_end' = "exception_commit"
            /\ UNCHANGED uploads
       ELSE /\ pc' = "upload"
            /\ uploads' = uploads + 2
            /\ UNCHANGED run_end

\* Faulty variant of Deliver: the result is not put into the cache.
DeliverWithoutCache ==
    /\ result_image_base64' = ResultB64
    /\ cache' = cache
    /\ Commit(db, MarkCompleted(db[tryon_id]))
    /\ IF CommitRaises
       THEN /\ pc' = "done"
            /\ run_end' = "exception_commit"
            /\ UNCHANGED uploads
       ELSE /\ pc' = "upload"
            /\ uploads' = uploads + 1
            /\ UNCHANGED run_end

\* Lines 314-336: the result goes to the cache, the row to COMPLETED, and the
\* upload is awaited.  When the commit raises, the handler finds no row.
Deliver ==
    /\ result_image_base64' = ResultB64
    /\ cache' = (tryon_id :> ResultB64) @@ cache
    /\ Commit(db, MarkCompleted(db[tryon_id]))
    /\ IF CommitRaises
       THEN /\ pc' = "done"
            /\ run_end' = "exception_commit"
            /\ UNCHANGED uploads
       ELSE /\ pc' = "upload"
            /\ uploads' = uploads + 1
            /\ UNCHANGED run_end

\* One request of the retry loop, and what follows when the call returns (its
\* loop locals end with it).
GeminiAttempt ==
    /\ pc = "generate"
    /\ \E out \in GeminiOutcomes :
         CASE out = "image" ->
                /\ gemini' = [gemini EXCEPT !.attempt = 0, !.last_exc = None]
                /\ Deliver
           [] Retried(out) /\ gemini.attempt + 1 < GeminiAttempts ->
                /\ gemini' = [gemini EXCEPT !.attempt = @ + 1, !.last_exc = out]
                /\ UNCHANGED <<storeVars, pc, result_image_base64, run_end>>
           [] OTHER ->
                \* `return None`, or the exception caught at line 472 or 478:
                \* the failure is logged, the caller gets None.
                /\ gemini' = [gemini EXCEPT !.attempt = 0, !.last_exc = None,
                                            !.failure = out]
                /\ FailAndReturn(db, MsgGeminiFailed, "gemini_failed")
                /\ UNCHANGED <<cache, uploads, result_image_base64>>
    /\ UNCHANGED <<args, items, user_image_base64, fetched_user_bytes, user_fetch,
                   item_urls_to_fetch, item_url_indices, user_fetch_idx, fetch_tasks,
                   fetched_responses, looked_up, apiVars>>

\* --- upload_file_from_base64 (s3_service.py), awaited at line 330

\* The URL, None (ClientError, ValueError and binascii.Error are caught at
\* line 112), or any other exception of put_object, which is not caught.
UploadOutcomes == {"url", "none", "raise"}
\* Faulty variant of RemoveKey: the entry is not popped.
KeepKey(c, id) == c
\* TRYON_RESULT_CACHE.pop(tryon_id, None)
RemoveKey(c, id) == [i \in DOMAIN c \ {id} |-> c[i]]

\* Lines 330-361: the upload ends.
UploadReturns ==
    /\ pc = "upload"
    /\ \E out \in UploadOutcomes :
         CASE out = "url" ->
                /\ Commit(db, SetResultUrl(db[tryon_id], ResultUrl))
                /\ cache' = IF CommitRaises THEN cache ELSE RemoveKey(cache, tryon_id)
                /\ run_end' = IF CommitRaises THEN "exception_commit" ELSE "uploaded"
           [] out = "none" ->
                /\ Commit(db, MarkFailed(db[tryon_id], MsgUploadFailed))
                /\ cache' = IF CommitRaises THEN cache ELSE RemoveKey(cache, tryon_id)
                /\ run_end' = IF CommitRaises THEN "exception_commit" ELSE "upload_failed"
           [] out = "raise" ->
                /\ \E len \in ExcLens : ExceptHandler(len)
                /\ cache' = cache
                /\ run_end' = "exception_upload"
    /\ pc' = "done"
    /\ UNCHANGED <<uploads, args, items, user_image_base64, fetched_user_bytes, user_fetch,
                   item_urls_to_fetch, item_url_indices, user_fetch_idx, fetch_tasks,
                   fetched_responses, looked_up, gemini, result_image_base64, apiVars>>

\* ------------------------------------------------------------ the system

Next ==
    \/ \E request \in Requests : generate_virtual_tryon_endpoint(Owner, request)
    \/ \E u \in Users : get_tryon_result(FirstId, u)
    \/ \E u \in Users : delete_tryon(FirstId, u)
    \/ TaskStart
    \/ UserFetchAttempt
    \/ \E k \in 1..(MaxItems + 1) : GatherFetchAttempt(k)
    \/ GatherReturns
    \/ GeminiAttempt
    \/ UploadReturns

Spec == Init /\ [][Next]_vars

\* --- a duplicate run

\* process_virtual_tryon_with_ai is called again with the arguments of the
\* first call, after that call has ended (a task queued twice, or queued again
\* after a restart): its locals start afresh, the rows and the cache are as
\* the first call left them.  Runs stop being repeated after MaxUploads
\* uploads.
Rerun ==
    /\ pc = "done"
    /\ uploads < MaxUploads
    /\ pc' = "scheduled"
    /\ run_end' = "none"
    /\ items' = [idx \in 1..Len(items) |->
                    [items[idx] EXCEPT !.image_base64 =
                        IF @ = ItemB64 THEN ItemB64 ELSE None]]
    /\ user_image_base64' = args.user_image_base64
    /\ fetched_user_bytes' = NoBytes
    /\ user_fetch' = NoFetch
    /\ item_urls_to_fetch' = <<>>
    /\ item_url_indices' = <<>>
    /\ user_fetch_idx' = 0
    /\ fetch_tasks' = <<>>
    /\ fetched_responses' = <<>>
    /\ looked_up' = {}
    /\ gemini' = NoGemini
    /\ result_image_base64' = None
    /\ UNCHANGED <<storeVars, args, apiVars>>

\* The request bodies with one item.
RerunRequests == { request \in Requests : Len(request.item_details) = 1 }

NextRerun ==
    \/ \E request \in RerunRequests : generate_virtual_tryon_endpoint(Owner, request)
    \/ \E u \in Users : get_tryon_result(FirstId, u)
    \/ \E u \in Users : delete_tryon(FirstId, u)
    \/ TaskStart
    \/ UserFetchAttempt
    \/ \E k \in 1..(MaxItems + 1) : GatherFetchAttempt(k)
    \/ GatherReturns
    \/ GeminiAttempt
    \/ UploadReturns
    \/ Rerun

SpecRerun == Init /\ [][NextRerun]_vars

\* ------------------------------------------------------------- properties

\* What a poll of the job by its owner answers in the current state.
OwnerPoll == GetTryonResult(db, cache, FirstId, Owner)
\* The task found its row and has ended.
RunEnded == pc = "done" /\ run_end # "record_missing"
\* Image acquisition is over: the responses are mapped back to the items.
AcquisitionOver ==
    \/ pc \in {"generate", "upload"}
    \/ pc = "done" /\ run_end \notin {"record_missing", "exception_user_fetch"}
\* The positions of the items that have an image once acquisition is over.
Acquired == { idx \in 1..Len(items) : Truthy(items[idx].image_base64) }

\* C1: a run that found its job never ends with the job still PROCESSING:
\* when the task has ended, the row, if it is still there, is COMPLETED or
\* FAILED, whatever the fetches, lookups, generation and upload brought.
C1_TerminalState ==
    (RunEnded /\ Exists(FirstId)) => db[FirstId].status \in {COMPLETED, FAILED}
C1_Witness ==
    /\ RunEnded /\ run_end = "exception_upload"
    /\ Exists(FirstId) /\ db[FirstId].status = FAILED

C3_Original ==
    Exists(FirstId) =>
        (db[FirstId].status = COMPLETED
            <=> (FirstId \in DOMAIN cache \/ Truthy(db[FirstId].result_image_url)))

UploadHasFailed == run_end \in {"upload_failed", "exception_upload"}
C6_SubjectMandatory ==
    user_fetch.state = "raised" =>
        /\ pc = "done"
        /\ gemini.calls = 0
        /\ Exists(FirstId) => db[FirstId].status = FAILED
C6_Witness ==
    /\ user_fetch.state = "raised" /\ user_fetch.attempts = FetchAttempts
    /\ Exists(FirstId) /\ db[FirstId].status = FAILED

\* C7: when the user image is there and some but not all items have an image,
\* generate_virtual_tryon is called once, with the images of exactly those
\* items in their order, and when it returns an image the job is COMPLETED.
C7_PartialDegradation ==
    (/\ AcquisitionOver
     /\ Truthy(user_image_base64)
     /\ Acquired # {}
     /\ Acquired # 1..Len(items)) =>
        /\ gemini.calls = 1
        /\ gemini.user = user_image_base64
        /\ Len(gemini.items) = Cardinality(Acquired)
        /\ \A idx \in Acquired :
              gemini.items[Cardinality({i \in Acquired : i <= idx})]
                 = items[idx].image_base64
        /\ (pc = "upload" /\ Exists(FirstId)) => db[FirstId].status = COMPLETED
C7_Witness ==
    /\ pc = "upload" /\ Exists(FirstId) /\ db[FirstId].status = COMPLETED
    /\ Len(items) = 3 /\ Acquired = {1, 3}
    /\ gemini.items = <<items[1].image_base64, items[3].image_base64>>
    /\ \E k \in 1..Len(fetched_responses) : ~fetched_responses[k].ok

\* C8 as stated: when no item has an image the job is FAILED with the
\* no-valid-items message and generate_virtual_tryon is never called.
C8_Original ==
    (AcquisitionOver /\ Acquired = {} /\ Exists(FirstId)) =>
        /\ db[FirstId].status = FAILED
        /\ db[FirstId].error_message = MsgNoValidItems
        /\ gemini.calls = 0
\* C8 as amended: when no item has an image the job is FAILED and
\* generate_virtual_tryon is never called; the error is the no-valid-items
\* message when the user image is there, and the user-image message when it
\* is missing too.
C8_Amended ==
    (AcquisitionOver /\ Acquired = {} /\ Exists(FirstId)) =>
        /\ db[FirstId].status = FAILED
        /\ db[FirstId].error_message =
              IF Truthy(user_image_base64) THEN MsgNoValidItems ELSE MsgUserImageRequired
        /\ gemini.calls = 0
C8_Witness ==
    /\ run_end = "no_valid_items" /\ Exists(FirstId)
    /\ db[FirstId].error_message = MsgNoValidItems
    /\ \E k \in 1..Len(fetched_responses) : ~fetched_responses[k].ok

\* The fetch_with_retries calls there are.
Fetches == {user_fetch} \cup {fetch_tasks[k] : k \in 1..Len(fetch_tasks)}
FetchOver(f) == f.state \in {"returned", "raised"}
\* The failed attempts of a call.
FailedAttempts(f) == IF f.state = "returned" THEN f.attempts - 1 ELSE f.attempts
RetryBound(f) ==
    /\ f.attempts <= FetchAttempts
    /\ f.state = "raised" => f.attempts = FetchAttempts
    /\ f.state = "returned" => f.attempts >= 1
    /\ f.state = "pending" => f.attempts < FetchAttempts
    /\ f.slept = BackoffTenths * FailedAttempts(f)
\* One step of a call: nothing, or one more attempt of a pending call, whose
\* failure is followed by a longer sleep than the one before.
RetryStep(f, g) ==
    \/ g = f
    \/ /\ f.state = "pending"
       /\ g.url = f.url
       /\ g.attempts = f.attempts + 1
       /\ g.state # "returned" => g.slept > f.slept
\* C9: a fetch is attempted until it succeeds or has failed 3 times: a call
\* raises only after exactly 3 failed attempts, makes no attempt after a
\* success or after the third failure, and sleeps 1.5 s x the attempt number
\* after each failure, longer every time.
C9_RetryBound ==
    /\ [](\A f \in Fetches : RetryBound(f))
    /\ [][/\ user_fetch.state # "none" => RetryStep(user_fetch, user_fetch')
          /\ \A k \in 1..Len(fetch_tasks) :
                fetch_tasks' = <<>> \/ RetryStep(fetch_tasks[k], fetch_tasks'[k])
          /\ fetch_tasks' = <<>> =>
                \A k \in 1..Len(fetch_tasks) : FetchOver(fetch_tasks[k])]_vars
C9_Witness ==
    /\ \E k \in 1..Len(fetch_tasks) :
          /\ fetch_tasks[k].state = "raised"
          /\ fetch_tasks[k].attempts = FetchAttempts
    /\ \E k \in 1..Len(fetch_tasks) :
          /\ fetch_tasks[k].state = "returned"
          /\ fetch_tasks[k].attempts = FetchAttempts - 1

\* The answer to a caller for whom the job does not exist.
NotFound(u) == [NoResponse EXCEPT !.code = HTTP_404, !.caller = u]
\* C10: a poll by a user who does not own the job is answered 404 with no
\* status, no URL, no inline image and no error text, exactly as if the job
\* and its cache entry did not exist; and no answer such a user ever got
\* carries anything else.
C10_NonOwnerLearnsNothing ==
    /\ \A u \in Users :
          (Exists(FirstId) /\ db[FirstId].user_id # u) =>
              /\ GetTryonResult(db, cache, FirstId, u) = NotFound(u)
              /\ GetTryonResult(db, cache, FirstId, u)
                   = GetTryonResult(DeleteRow(db, FirstId), RemoveKey(cache, FirstId),
                                    FirstId, u)
    /\ last_response.caller \in Users \ {Owner} => last_response = NotFound(last_response.caller)
C10_Witness ==
    /\ last_response.caller \in Users \ {Owner}
    /\ last_response.code = HTTP_404
    /\ Exists(FirstId) /\ db[FirstId].status = COMPLETED
    /\ FirstId \in DOMAIN cache

\* A poll answer that carries no inline image next to a URL, and an inline
\* image only for a COMPLETED job without URL.
ExclusiveResult(r) ==
    /\ ~(Truthy(r.result_image_url) /\ Truthy(r.result_image_base64))
    /\ Truthy(r.result_image_base64) =>
          (r.status = COMPLETED /\ ~Truthy(r.result_image_url))
\* C11: no answer of get_tryon_result carries both result_image_url and
\* result_image_base64; the inline image is there only when the job is
\* COMPLETED and has no URL, never when it is PROCESSING or FAILED, whatever
\* the cache holds.
C11_UrlOrInline ==
    /\ \A u \in Users : ExclusiveResult(GetTryonResult(db, cache, FirstId, u))
    /\ ExclusiveResult(last_response)
C11_Witness ==
    /\ Exists(FirstId) /\ db[FirstId].status = FAILED
    /\ FirstId \in DOMAIN cache
    /\ last_response = OwnerPoll
    /\ last_response.result_image_base64 = None

\* C12: a create is answered 422 and writes and schedules nothing, or it is
\* answered 202 for a request of 1 to 5 items, writes one row in status
\* PROCESSING owned by the caller, schedules the task for that row and answers
\* with the row's id and PROCESSING before the task has started; so a job or
\* a scheduled task exists only after a 202, and only for 1 to 5 items.
C12_Create ==
    /\ [](/\ (Exists(FirstId) \/ pc # "idle") =>
                /\ create_response.code = HTTP_202
                /\ Len(items) \in MinItemDetails..MaxItemDetails
          /\ create_response.code = HTTP_422 => (db = <<>> /\ pc = "idle")
          /\ Cardinality(DOMAIN db) <= 1)
    /\ [][create_response' # create_response =>
            \/ /\ create_response'.code = HTTP_422
               /\ UNCHANGED <<storeVars, taskVars>>
            \/ /\ create_response'.code = HTTP_202
               /\ Len(items') \in MinItemDetails..MaxItemDetails
               /\ DOMAIN db = {} /\ DOMAIN db' = {create_response'.id}
               /\ db'[create_response'.id].status = PROCESSING
               /\ db'[create_response'.id].user_id = create_response'.caller
               /\ create_response'.status = PROCESSING
               /\ pc = "idle" /\ pc' = "scheduled"
               /\ args'.tryon_id = create_response'.id
               /\ run_end' = "none"]_vars
C12_Witness ==
    /\ create_response.code = HTTP_202 /\ create_response.id = FirstId
    /\ pc = "scheduled" /\ Len(items) = MaxItems
    /\ Exists(FirstId) /\ db[FirstId].status = PROCESSING

\* C13: a step that removes the job's row is a delete by its owner, answered
\* 204, and changes nothing but the row: the cache and the uploaded images
\* stay as they are; an answer of 204 is given only for a row that was there
\* and is gone; the answer that follows a 204 is 404; an answer to another
\* user is 404; and a step answered 404 changes no row, cache entry or image.
C13_Delete ==
    [][/\ (Exists(FirstId) /\ ~(FirstId \in DOMAIN db')) =>
             /\ last_response'.code = HTTP_204
             /\ last_response'.caller = db[FirstId].user_id
             /\ DOMAIN db' = DOMAIN db \ {FirstId}
             /\ cache' = cache
             /\ uploads' = uploads
             /\ UNCHANGED taskVars
       /\ (last_response' # last_response /\ last_response'.code = HTTP_204) =>
             (Exists(FirstId) /\ ~(FirstId \in DOMAIN db'))
       /\ (last_response' # last_response /\ last_response.code = HTTP_204) =>
             last_response'.code = HTTP_404
       /\ (last_response' # last_response /\ last_response'.caller # Owner) =>
             last_response'.code = HTTP_404
       /\ (last_response' # last_response /\ last_response'.code = HTTP_404) =>
             UNCHANGED <<storeVars, taskVars>>]_vars
C13_Witness ==
    /\ last_response.code = HTTP_404 /\ last_response.caller = Owner
    /\ create_response.code = HTTP_202 /\ ~Exists(FirstId)
    /\ FirstId \in DOMAIN cache

\* C14 as stated: a FAILED job has a non-empty error_message, and a
\* PROCESSING or COMPLETED job has none.
C14_Original ==
    Exists(FirstId) =>
        /\ db[FirstId].status = FAILED =>
              (db[FirstId].error_message # NoMsg /\ db[FirstId].error_message.len > 0)
        /\ db[FirstId].status \in {PROCESSING, COMPLETED} =>
              db[FirstId].error_message = NoMsg

\* The status of the job's row changes in this step, from a to b.
StatusWritten(a, b) ==
    /\ Exists(FirstId) /\ FirstId \in DOMAIN db'
    /\ db[FirstId].status = a /\ db'[FirstId].status = b
Terminal == {COMPLETED, FAILED}
C16_OneUpload ==
    /\ uploads <= 1
    /\ uploads = 1 => (gemini.calls = 1 /\ result_image_base64 = ResultB64)
    /\ run_end \in {"record_missing", "exception_user_fetch", "user_image_required",
                    "no_valid_items", "gemini_failed"} => uploads = 0
C16_Witness ==
    /\ uploads = 1
    /\ run_end \in {"uploaded", "upload_failed"}

\* C17 as stated: the retry loop of generate_virtual_tryon goes on only after
\* a transport error: it is never about to send another request after the
\* service answered with an error status, and it sends at most 3 requests.
C17_Original ==
    /\ pc = "generate" => gemini.last_exc \in {None, "transport_error"}
    /\ gemini.attempt < GeminiAttempts

\* The item at idx came without inline image and with a URL of its own.
DirectUrlItem(idx) ==
    /\ items[idx].image_base64 # ItemB64
    /\ ~WardrobeBranch(items[idx])
    /\ idx <= Len(args.item_image_urls) /\ Truthy(args.item_image_urls[idx])
\* The item at idx came without inline image and names a wardrobe record.
CatalogItem(idx) ==
    /\ items[idx].image_base64 # ItemB64
    /\ WardrobeBranch(items[idx]) /\ IntParses(items[idx].item_id)
\* C18 as stated: whatever fetch of the run failed on all its attempts, the
\* user image's included, every other source of the run was still worked on:
\* when the task has ended, every item with a URL of its own has been
\* fetched to a response, and every wardrobe item has been looked up.
C18_Original ==
    RunEnded =>
        \A idx \in 1..Len(items) :
            /\ DirectUrlItem(idx) =>
                  \E k \in 1..Len(item_url_indices) :
                      /\ item_url_indices[k] = idx
                      /\ user_fetch_idx + k <= Len(fetched_responses)
            /\ CatalogItem(idx) => idx \in looked_up

\* C19: generate_virtual_tryon is called only when every fetch of the run has
\* returned or raised, with one response for every gathered task; the images
\* it gets are those of the items that have one at that moment, and the
\* items do not change any more once it is called.
C19_GenerationAfterAcquisition ==
    /\ [](gemini.calls > 0 =>
            /\ user_fetch.state # "pending"
            /\ \A k \in 1..Len(fetch_tasks) : FetchOver(fetch_tasks[k])
            /\ Len(fetched_responses) = user_fetch_idx + Len(item_urls_to_fetch))
    /\ [][/\ gemini.calls' > gemini.calls =>
                /\ user_fetch'.state # "pending"
                /\ \A k \in 1..Len(fetch_tasks) : FetchOver(fetch_tasks[k])
                /\ \A k \in 1..Len(fetch_tasks') : FetchOver(fetch_tasks'[k])
                /\ Len(gemini'.items) = Cardinality({idx \in 1..Len(items') :
                                                       Truthy(items'[idx].image_base64)})
          /\ gemini.calls > 0 => (items' = items /\ gemini'.items = gemini.items)]_vars
C19_Witness ==
    /\ pc = "generate"
    /\ Len(fetched_responses) = MaxItems
    /\ \E k \in 1..Len(fetched_responses) : ~fetched_responses[k].ok
    /\ \E k \in 1..Len(fetched_responses) : fetched_responses[k].ok

\* The row has a result_image_url in store.
HasUrl(store) == FirstId \in DOMAIN store /\ Truthy(store[FirstId].result_image_url)
\* C20: result_image_url is written only to a row that is already COMPLETED
\* and whose image is in the cache; when the cache entry of a job that stays
\* COMPLETED is removed, the row has its URL; so a row with a URL is
\* COMPLETED, and a COMPLETED row has its image in the cache or a URL.
C20_UrlAfterCache ==
    /\ [](Exists(FirstId) =>
            /\ HasUrl(db) => db[FirstId].status = COMPLETED
            /\ db[FirstId].status = COMPLETED =>
                  (HasUrl(db) \/ (FirstId \in DOMAIN cache /\ Truthy(cache[FirstId]))))
    /\ [][/\ (~HasUrl(db) /\ HasUrl(db')) =>
                /\ Exists(FirstId) /\ db[FirstId].status = COMPLETED
                /\ FirstId \in DOMAIN cache /\ cache[FirstId] = ResultB64
                /\ OwnerPoll.result_image_base64 = ResultB64
          /\ (/\ FirstId \in DOMAIN cache /\ FirstId \notin DOMAIN cache'
              /\ FirstId \in DOMAIN db' /\ db'[FirstId].status = COMPLETED) =>
                HasUrl(db')]_vars
C20_Witness ==
    /\ run_end = "uploaded"
    /\ HasUrl(db) /\ FirstId \notin DOMAIN cache
    /\ last_response = OwnerPoll /\ last_response.result_image_url = ResultUrl

\* The task has done nothing yet: no fetch, no lookup, no call of Gemini, no
\* cache write and no upload.
NothingDone ==
    /\ cache = <<>> /\ uploads = 0 /\ result_image_base64 = None
    /\ gemini = NoGemini
    /\ user_fetch = NoFetch /\ fetch_tasks = <<>> /\ fetched_responses = <<>>
    /\ item_urls_to_fetch = <<>> /\ item_url_indices = <<>> /\ looked_up = {}
\* C21: a task that does not find its row returns at once: the step that
\* loads the row leaves the rows, the cache and the uploads as they are and
\* ends the run, and then no row exists and no fetch, lookup, call of Gemini,
\* cache write or upload has happened.
C21_MissingRecordNoEffect ==
    /\ [](run_end = "record_missing" => (pc = "done" /\ db = <<>> /\ NothingDone))
    /\ [][(pc = "scheduled" /\ ~Exists(FirstId) /\ pc' # pc) =>
             (pc' = "done" /\ run_end' = "record_missing"
              /\ UNCHANGED <<db, cache, uploads>>)]_vars
C21_Witness ==
    /\ run_end = "record_missing" /\ pc = "done"
    /\ create_response.code = HTTP_202 /\ ~Exists(FirstId)

\* generate_virtual_tryon has returned None to the task.
GenerationFailed == pc = "done" /\ gemini.failure # None
SubjectUnavailable == run_end \in {"user_image_required", "exception_user_fetch"}
\* C23 as stated: whenever the user image could not be acquired, because none
\* was given or because its fetch failed on all attempts, the error_message
\* of the job is the same fixed text.
C23_Original ==
    (RunEnded /\ SubjectUnavailable /\ Exists(FirstId)) =>
        /\ db[FirstId].status = FAILED
        /\ db[FirstId].error_message = MsgUserImageRequired

\* C24 as stated: a job that is COMPLETED or FAILED is never PROCESSING again,
\* also when the task is run a second time for it.
C24_Original ==
    [][(Exists(FirstId) /\ db[FirstId].status \in Terminal /\ FirstId \in DOMAIN db')
          => db'[FirstId].status # PROCESSING]_vars

\* The positions the item loop appended a URL for.
UrlPositions == { item_url_indices[k] : k \in 1..Len(item_url_indices) }
\* The wardrobe items without inline image whose lookup gave no URL: no
\* record, a record without image, an item_id that is no number, or an error.
LookupDropped ==
    { idx \in 1..Len(items) : /\ items[idx].image_base64 # ItemB64
                              /\ WardrobeBranch(items[idx])
                              /\ idx \notin UrlPositions }
\* C25: a wardrobe item whose lookup gives no URL is left without image and
\* kept out of the call of Gemini, as an item whose fetch failed; the other
\* wardrobe items are still looked up and every URL found is still fetched;
\* and the job fails for want of items only when no item has an image.
C25_LookupMissDropped ==
    AcquisitionOver =>
        /\ \A idx \in LookupDropped : idx \notin Acquired
        /\ \A idx \in 1..Len(items) :
              /\ CatalogItem(idx) => idx \in looked_up
              /\ DirectUrlItem(idx) => idx \in UrlPositions
        /\ Len(fetched_responses) = user_fetch_idx + Len(item_url_indices)
        /\ run_end = "no_valid_items" => Acquired = {}
        /\ (Acquired # {} /\ Truthy(user_image_base64)) =>
              /\ gemini.calls = 1
              /\ Len(gemini.items) = Cardinality(Acquired)
C25_Witness ==
    /\ pc = "generate" /\ Len(items) = 3
    /\ 1 \in looked_up /\ 1 \in LookupDropped
    /\ items[2].item_id = BadId /\ 2 \in LookupDropped
    /\ 3 \in looked_up /\ Acquired = {3}
    /\ gemini.items = <<B64Encode(BytesOf(WardrobeUrls[3]))>>

\* The positions of the items the request gave an inline image for.
InlineItems == { idx \in 1..Len(items) : items[idx].image_base64 = ItemB64 }
\* C26: an item that came with an inline image is never looked up in the
\* wardrobe and no URL is fetched for it, whatever URL or item_id came with
\* it; its image is never replaced; it counts as an item with image, and the
\* call of Gemini gets that image.
C26_InlineItemSkipsNetwork ==
    /\ [](\A idx \in InlineItems :
            /\ idx \notin looked_up
            /\ idx \notin UrlPositions
            /\ Len(fetch_tasks) \in {0, user_fetch_idx + Len(item_url_indices)}
            /\ \A k \in 1..Len(fetch_tasks) : fetch_tasks[k].url # ItemUrl
            /\ AcquisitionOver => idx \in Acquired
            /\ gemini.calls > 0 => (\E k \in 1..Len(gemini.items) : gemini.items[k] = ItemB64))
    /\ [][\A idx \in InlineItems : items'[idx].image_base64 = ItemB64]_vars
C26_Witness ==
    /\ pc = "generate" /\ InlineItems = {1}
    /\ args.item_image_urls = <<ItemUrl>>
    /\ looked_up = {} /\ item_url_indices = <<>> /\ fetched_responses = <<>>
    /\ gemini.calls = 1 /\ gemini.items = <<ItemB64>>

\* C27 as stated: once the run has ended, however it ended, the cache has an
\* entry for the job only if the row still exists, is COMPLETED and has no
\* result_image_url.
C27_Original ==
    (pc = "done" /\ FirstId \in DOMAIN cache) =>
        /\ Exists(FirstId)
        /\ db[FirstId].status = COMPLETED
        /\ ~Truthy(db[FirstId].result_image_url)

\* The job was created and its row has been deleted.
Deleted == create_response.code = HTTP_202 /\ ~Exists(FirstId)
\* C28: once the owner has deleted the job, at whatever stage of its run, no
\* step of the run puts a row back: the row stays deleted, and every poll from
\* then on, the owner's included, is answered 404, whatever the run goes on to
\* do and whatever it leaves in the cache.
C28_DeleteIsFinal ==
    /\ [](Deleted => \A u \in Users : GetTryonResult(db, cache, FirstId, u) = NotFound(u))
    /\ [][Deleted => /\ Deleted'
                     /\ last_response' # last_response => last_response'.code = HTTP_404]_vars
C28_Witness ==
    /\ Deleted /\ pc = "done" /\ run_end = "exception_commit"
    /\ gemini.calls = 1 /\ FirstId \in DOMAIN cache
    /\ last_response = NotFound(Owner)

\* The URL the item at idx is to be fetched from: that of its wardrobe record,
\* or the one the request gave for it.
OwnUrl(idx) ==
    IF WardrobeBranch(items[idx]) THEN WardrobeUrlOf(items[idx].item_id)
    ELSE args.item_image_urls[idx]
\* The images the items can have of their own.
ItemPayloads == {ItemB64} \cup {B64Encode(BytesOf(u)) : u \in AllUrls \ {UserUrl}}
\* C29: when the gathered responses have been mapped back, every item a URL
\* was fetched for has the image of its own URL if that fetch succeeded and no
\* image if it failed; the items nothing was fetched for are as they came; the
\* response to the fetch of the user image becomes fetched_user_bytes and
\* nothing else; no item has the user's image and the user image is no
\* item's.
C29_ResponsesMappedBack ==
    AcquisitionOver =>
        /\ Len(fetched_responses) = user_fetch_idx + Len(item_url_indices)
        /\ \A k \in 1..Len(item_url_indices) :
              LET idx == item_url_indices[k]
                  r == fetched_responses[user_fetch_idx + k]
              IN  /\ item_urls_to_fetch[k] = OwnUrl(idx)
                  /\ r.ok => /\ r.content = BytesOf(OwnUrl(idx))
                             /\ items[idx].image_base64 = B64Encode(BytesOf(OwnUrl(idx)))
                  /\ ~r.ok => items[idx].image_base64 = None
        /\ \A idx \in 1..Len(items) :
              /\ idx \notin UrlPositions => items[idx].image_base64 \in {None, ItemB64}
              /\ items[idx].image_base64 \in ItemPayloads \cup {None}
        /\ user_fetch_idx = 1 =>
              /\ fetched_responses[1].ok => fetched_user_bytes = BytesOf(UserUrl)
              /\ ~fetched_responses[1].ok => fetched_user_bytes = NoBytes
        /\ user_image_base64 \in {None, UserB64, B64Encode(BytesOf(UserUrl))}
C29_Witness ==
    /\ pc = "generate" /\ Len(items) = 3
    /\ user_fetch_idx = 1 /\ fetched_responses[1].ok
    /\ item_url_indices = <<1, 3>>
    /\ ~fetched_responses[2].ok /\ fetched_responses[3].ok
    /\ Acquired = {3} /\ items[3].image_base64 = B64Encode(BytesOf(WardrobeUrls[3]))

\* The request gave the user image inline and a URL for it as well.
InlineAndUrl == Truthy(args.user_image_base64) /\ Truthy(args.user_image_url)
\* The fetch of that URL, one of the gathered tasks, failed on all attempts.
GatheredUserFetchFailed ==
    /\ AcquisitionOver /\ user_fetch_idx = 1
    /\ Len(fetched_responses) >= 1 /\ ~fetched_responses[1].ok
\* C30: with the user image given inline and as a URL, the URL is fetched
\* among the gathered tasks only, and when that fetch has failed on all its
\* attempts the job does not fail for it: the inline image is the user image,
\* and with at least one item acquired Gemini is called with it and with the
\* acquired items; only a run without any acquired item fails.
C30_InlineSubjectSurvivesFetchFailure ==
    InlineAndUrl =>
        /\ pc # "user_fetch" /\ user_fetch = NoFetch
        /\ GatheredUserFetchFailed =>
              /\ user_image_base64 = UserB64
              /\ run_end \notin {"user_image_required", "exception_user_fetch"}
              /\ Acquired # {} =>
                    /\ gemini.calls = 1 /\ gemini.user = UserB64
                    /\ Len(gemini.items) = Cardinality(Acquired)
              /\ Acquired = {} => run_end \in {"no_valid_items", "exception_commit"}
C30_Witness ==
    /\ InlineAndUrl /\ GatheredUserFetchFailed
    /\ pc = "generate" /\ gemini.user = UserB64
    /\ Len(items) = 2 /\ Acquired = {2}

====
